---- MODULE Spec2Model ----
(***************************************************************************)
(* Campaign dispatch pipeline of smsleopard: the request handler's         *)
(* SendCampaign (internal/service/campaign_service.go), the RabbitMQ       *)
(* publisher/consumer (internal/queue) and the worker's message handler    *)
(* (cmd/worker/main.go), over the outbound_messages / campaigns tables.    *)
(*                                                                         *)
(* The Store (PostgreSQL) and the broker (RabbitMQ) are the environment:   *)
(* a Store call may return an error (at most MaxStoreFaults times in a     *)
(* run), a publish may fail, and the broker hands any ready job to an idle *)
(* consumer (no ordering is assumed across redeliveries).                  *)
(***************************************************************************)
EXTENDS Integers, Sequences, FiniteSets, TLC

VARIABLES
    campaigns,   \* campaigns table: id -> [status, base_template, channel]
    messages,    \* outbound_messages table: a sequence, the row id is the index
    jobs,        \* every job ever put on queue campaign_sends: [body, state]
    cons,        \* per consumer goroutine: position and locals of Start's loop
    reqs,        \* per in-flight SendCampaign call: position and locals
    hist,        \* per message: gateway invocations (ok / fail), Store faults seen,
                 \* whether the row was ever written sent, invocations made after that
    storeErrs,   \* number of Store calls that returned an error so far
    publisher,   \* whether the CampaignService was constructed with a Publisher (not nil)
    customers,   \* customers table: id -> [first_name, last_name, location,
                 \* preferred_product, phone]
    worker,      \* the worker process: position of main, whether stopChan is
                 \* closed, whether the queue connection and the database are open
    lists        \* the GET /campaigns requests so far, oldest first: the query,
                 \* the rows selected and the pagination reported

vars == <<campaigns, messages, jobs, cons, reqs, hist, storeErrs, publisher,
          customers, worker, lists>>

----------------------------------------------------------------------------
(* Bounds of the model *)

NumCampaigns == 1
NumCustomers == 2
NumRequests == 1
MaxMsgs == 2
MaxStoreFaults == 1
MaxForeignJobs == 1
MaxDuplicates == 1
MaxTemplateLen == 6
NumListed == 45
MaxInserts == 5
MaxLists == 3
NumCallers == 2
NumWorkers == 2

(* Program constants *)

MaxRetries == 3
PrefetchCount == 1
DefaultPage == 1
DefaultPageSize == 20
MaxPageSize == 100
NumConsumers == 1

NULL == "NULL"
ExceededMsg == "Exceeded maximum retry attempts (3)"
TemplateEmptyMsg == "template cannot be empty"

\* A text is a sequence of symbols: the braces, the field names, and pieces of
\* plain text are one symbol each.  A nullable column (*string) is a set:
\* empty for NULL, else holding the one text.
BaseTemplate == <<"Hi ", "{", "first_name", "}", "!">>
Alice == <<"Alice">>

CampaignIDs == 1..NumCampaigns
CustomerIDs == 1..NumCustomers
Consumers == 1..NumConsumers
Requests == 1..NumRequests

\* SenderService.send: the closed set of simulated failure reasons
failures ==
    {"network timeout", "invalid phone number", "rate limit exceeded",
     "service temporarily unavailable", "insufficient balance"}

Success == "success"

\* the reasons the model lets the PRNG pick from: two of the five, enough to
\* tell the reason written by an earlier attempt from the current one
SampledFailures == {"network timeout", "invalid phone number"}

\* SendResult of one gateway invocation: success, or failure with a reason
SendOutcomes == {Success} \cup SampledFailures

----------------------------------------------------------------------------
(* The Store *)

\* Outcomes of one Store call: it may fail while the fault budget lasts
StoreOutcomes == IF storeErrs < MaxStoreFaults THEN {TRUE, FALSE} ELSE {TRUE}

CountFault(ok) == IF ok THEN storeErrs ELSE storeErrs + 1

MessageIDs == 1..Len(messages)

\* mutation: a campaign already in sending may be sent again
CanSend_AllowsSending(status) == status \in {"draft", "scheduled", "sending"}

\* mutation: the status check lets every campaign through
CanSend_Always(status) == TRUE

\* Campaign.CanSend
CanSend(status) == status \in {"draft", "scheduled"}

\* mutation: the new row starts with one retry already counted
NewMessage_RetryOne(cid, cust) ==
    [campaign_id |-> cid, customer_id |-> cust, status |-> "pending",
     rendered_content |-> NULL, last_error |-> NULL, retry_count |-> 1]

\* the row SendCampaign builds for one customer (and CreateBatch inserts)
NewMessage(cid, cust) ==
    [campaign_id |-> cid, customer_id |-> cust, status |-> "pending",
     rendered_content |-> NULL, last_error |-> NULL, retry_count |-> 0]

\* UPDATE outbound_messages SET status = 'sent'
updateMessageSuccess(row) == [row EXCEPT !.status = "sent"]

\* mutation: the failure update leaves retry_count as it was
updateMessageFailure_NoIncrement(row, errorMsg) ==
    [row EXCEPT !.status = "failed", !.last_error = errorMsg]

\* UPDATE ... SET status = 'failed', retry_count = retry_count + 1, last_error = $2
updateMessageFailure(row, errorMsg) ==
    [row EXCEPT !.status = "failed",
                !.retry_count = @ + 1,
                !.last_error = errorMsg]

\* mutation: the permanent-failure update also resets the retry counter
updateMessagePermanentFailure_ResetsRetry(row) ==
    [row EXCEPT !.status = "failed", !.last_error = ExceededMsg, !.retry_count = 0]

\* UPDATE ... SET status = 'failed', last_error = 'Exceeded maximum retry attempts (3)'
updateMessagePermanentFailure(row) ==
    [row EXCEPT !.status = "failed", !.last_error = ExceededMsg]

\* mutation: the retry-limit check is off by one
RetryLimitReached_OffByOne(retryCount) == retryCount > MaxRetries

\* the worker's retry-limit check on the fetched row
RetryLimitReached(retryCount) == retryCount >= MaxRetries

\* TemplateService.Render fails only on an empty template (the customer is never nil)
RenderFails(template) == template = <<>>

\* strings.HasPrefix(s[i-1:], old)
HasPrefixAt(s, old, i) ==
    /\ i + Len(old) - 1 <= Len(s)
    /\ \A k \in 1..Len(old) : s[i + k - 1] = old[k]

RECURSIVE ReplaceFrom(_, _, _, _)
ReplaceFrom(s, old, new, i) ==
    IF i > Len(s) THEN <<>>
    ELSE IF HasPrefixAt(s, old, i)
         THEN new \o ReplaceFrom(s, old, new, i + Len(old))
         ELSE <<s[i]>> \o ReplaceFrom(s, old, new, i + 1)

\* strings.ReplaceAll for a non-empty old: the non-overlapping occurrences of
\* old in s, found left to right, each replaced by new; new is not rescanned.
\* (The arguments are bound to their values once, before the scan.)
ReplaceAll(s, old, new) ==
    CHOOSE r \in {ReplaceFrom(t, o, n, 1) : t \in {s}, o \in {old}, n \in {new}} : TRUE

Placeholder(field) == <<"{", field, "}">>

\* what Render substitutes for a nullable column: its text when the pointer
\* is not nil and the text is not "", else ""
ValueOf(ptr) ==
    IF ptr # {} /\ ptr # {<<>>} THEN CHOOSE v \in ptr : TRUE ELSE <<>>

\* one pass of Render over a nullable column
ReplaceField(text, customer, field) ==
    ReplaceAll(text, Placeholder(field), ValueOf(customer[field]))

\* strings.Count(template, symbol)
RECURSIVE Count(_, _)
Count(text, symbol) ==
    IF text = <<>> THEN 0
    ELSE (IF Head(text) = symbol THEN 1 ELSE 0) + Count(Tail(text), symbol)

\* mutation: a placeholder for an unknown field fails the validation
ValidateTemplate_RejectsUnknown(template) ==
    /\ template # <<>>
    /\ Count(template, "{") = Count(template, "}")
    /\ \A i \in 1..(Len(template) - 2) :
          (template[i] = "{" /\ template[i + 2] = "}" /\ template[i + 1] \notin {"{", "}"})
              => template[i + 1] \in {"first_name", "last_name", "location",
                                      "preferred_product", "phone"}

\* TemplateService.ValidateTemplate returns nil: the template is not empty and
\* has as many "{" as "}" (unknown fields are allowed)
ValidateTemplate(template) ==
    /\ template # <<>>
    /\ Count(template, "{") = Count(template, "}")

\* TemplateService.Render for a non-empty template and a non-nil customer:
\* five passes, each over the output of the one before
Render(template, customer) ==
    LET r1 == ReplaceField(template, customer, "first_name")
        r2 == ReplaceField(r1, customer, "last_name")
        r3 == ReplaceField(r2, customer, "location")
        r4 == ReplaceField(r3, customer, "preferred_product")
    IN  ReplaceAll(r4, Placeholder("phone"), customer.phone)

----------------------------------------------------------------------------
(* The queue *)

\* mutation: the job is built before the INSERT has assigned the row's id
MessageJob_ZeroID(messageID, campaignID, customerID) ==
    [json |-> TRUE, message_id |-> 0,
     campaign_id |-> campaignID, customer_id |-> customerID]

\* PublishMessage: the JSON encoding of MessageJob{MessageID, CampaignID, CustomerID}
MessageJob(messageID, campaignID, customerID) ==
    [json |-> TRUE, message_id |-> messageID,
     campaign_id |-> campaignID, customer_id |-> customerID]

\* a delivery body that is not the JSON of a MessageJob
Garbage == [json |-> FALSE, message_id |-> 0, campaign_id |-> 0, customer_id |-> 0]

\* json.Unmarshal of the delivery body into a MessageJob
UnmarshalFails(body) == ~body.json

JobIDs == 1..Len(jobs)

NewJob(body) == [body |-> body, state |-> "ready", holder |-> 0]

\* jobs whose body refers to message m
JobsOf(m) == {j \in JobIDs : jobs[j].body.json /\ jobs[j].body.message_id = m}

Published(m) == JobsOf(m) # {}

ForeignJobs ==
    {j \in JobIDs : ~jobs[j].body.json \/ jobs[j].body.message_id \notin MessageIDs}

\* bodies another producer may put on the queue: not a MessageJob, or a
\* MessageJob naming an id no row has (the zero value of message_id)
ForeignBodies == {Garbage, MessageJob(0, 0, 0)}

----------------------------------------------------------------------------
(* Initial state *)

\* the customers of the seeded table: the first has a first name, the others none
Phone(i) == <<"+25470000000", i>>

SeedCustomer(i) ==
    [first_name |-> IF i = 1 THEN {Alice} ELSE {},
     last_name |-> {}, location |-> {}, preferred_product |-> {},
     phone |-> Phone(i)]

\* main after consumer.Start returned, blocked on sigChan
RunningWorker == [pc |-> "running", stopChan |-> FALSE, conn |-> TRUE, db |-> TRUE]

IdleConsumer ==
    [pc |-> "idle", inbox |-> <<>>, job |-> 0, retry |-> 0, rendered |-> <<>>,
     result |-> NULL, err |-> FALSE, branch |-> NULL, updated |-> FALSE]

IdleRequest ==
    [pc |-> "idle", campaign |-> 0, ids |-> <<>>, customers |-> <<>>,
     created |-> <<>>, next |-> 0, outcome |-> NULL, queued |-> 0, status |-> NULL,
     customer |-> 0, override |-> {}, used |-> <<>>, rendered |-> <<>>,
     template |-> NULL]

NewHist == [ok |-> 0, fail |-> 0, dberr |-> FALSE, sent |-> FALSE, late |-> 0]

Init ==
    /\ campaigns \in [CampaignIDs ->
           [status : {"draft", "scheduled", "sent", "failed"},
            base_template : {BaseTemplate}]]
    /\ customers = [i \in CustomerIDs |-> SeedCustomer(i)]
    /\ worker = RunningWorker
    /\ lists = <<>>
    /\ messages = <<>>
    /\ jobs = <<>>
    /\ cons = [c \in Consumers |-> IdleConsumer]
    /\ reqs = [r \in Requests |-> IdleRequest]
    /\ hist = <<>>
    /\ storeErrs = 0
    /\ publisher \in BOOLEAN

----------------------------------------------------------------------------
(* SendCampaign (request handler) *)

\* ids a caller may name: the existing customers and one id that matches no row
RequestableIDs == 1..(NumCustomers + 1)

RecipientLists ==
    {<<>>} \cup {<<a>> : a \in RequestableIDs}
           \cup {<<a, b>> : a, b \in RequestableIDs}

RECURSIVE SortedSeq(_)
SortedSeq(S) ==
    IF S = {} THEN <<>>
    ELSE LET x == CHOOSE y \in S : \A z \in S : y <= z
         IN  <<x>> \o SortedSeq(S \ {x})

\* mutation: the lookup returns one row per occurrence of a matching id
GetByIDs_PerOccurrence(ids) ==
    SelectSeq(ids, LAMBDA x : x \in CustomerIDs)

\* mutation: the lookup returns a row for every id asked for
GetByIDs_NoFilter(ids) ==
    SortedSeq({ids[i] : i \in DOMAIN ids})

\* customerRepo.GetByIDs: SELECT ... WHERE id = ANY($1), one row per matching customer
GetByIDs(ids) ==
    SortedSeq({ids[i] : i \in DOMAIN ids} \cap CustomerIDs)

RECURSIVE RowsInFlight(_)
\* rows that calls past validation have yet to insert
RowsInFlight(R) ==
    IF R = {} THEN 0
    ELSE LET r == CHOOSE x \in R : TRUE
         IN  (IF reqs[r].pc = "create" THEN Len(reqs[r].customers) ELSE 0)
             + RowsInFlight(R \ {r})

\* the call ends with an error (or a panic); its locals are kept for the record
Return(r, outcome) ==
    [reqs EXCEPT ![r] = [@ EXCEPT !.pc = "idle", !.next = 0, !.outcome = outcome]]

\* &SendCampaignResult{CampaignID, MessagesQueued: len(messages), Status: sending}
ReturnResult(r) ==
    [reqs EXCEPT ![r] = [@ EXCEPT !.pc = "idle", !.next = 0, !.outcome = "OK",
                                  !.queued = Len(reqs[r].created),
                                  !.status = "sending"]]

\* SendCampaign up to and including BeginTx: load, validate, open the transaction
SendBegin(r, cid, ids) ==
    /\ reqs[r].pc = "idle"
    /\ Len(messages) + RowsInFlight(DOMAIN reqs) + Len(GetByIDs(ids)) <= MaxMsgs
    /\ \E fault \in {"none"} \cup
                    (IF storeErrs < MaxStoreFaults
                     THEN {"GetByID", "GetByIDs", "BeginTx"} ELSE {}) :
         LET found == GetByIDs(ids)
             outcome ==
                 IF fault = "GetByID" \/ cid \notin DOMAIN campaigns THEN "NotFound"
                 ELSE IF ~CanSend(campaigns[cid].status) THEN "BusinessLogic"
                 ELSE IF Len(ids) = 0 THEN "Validation"
                 ELSE IF fault = "GetByIDs" THEN "Internal"
                 ELSE IF Len(found) = 0 THEN "Validation"
                 ELSE IF fault = "BeginTx" THEN "Internal"
                 ELSE "proceed"
             \* a fault is counted only when the failing call is reached
             reached ==
                 \/ fault = "GetByID"
                 \/ fault = "GetByIDs" /\ outcome = "Internal"
                 \/ fault = "BeginTx" /\ outcome = "Internal"
         IN  /\ fault # "none" => reached
             /\ storeErrs' = IF fault = "none" THEN storeErrs ELSE storeErrs + 1
             /\ reqs' = IF outcome = "proceed"
                        THEN [reqs EXCEPT ![r] =
                                 [IdleRequest EXCEPT !.pc = "create",
                                                     !.campaign = cid,
                                                     !.ids = ids,
                                                     !.customers = found]]
                        ELSE [reqs EXCEPT ![r] =
                                 [IdleRequest EXCEPT
                                     !.campaign = cid,
                                     \* customerIDs is read only past CanSend
                                     !.ids = IF outcome \in {"NotFound", "BusinessLogic"}
                                             THEN <<>> ELSE ids,
                                     !.outcome = outcome,
                                     !.status = IF outcome = "BusinessLogic"
                                                THEN campaigns[cid].status
                                                ELSE NULL]]
    /\ UNCHANGED <<publisher, customers, worker, lists, campaigns, messages, jobs, cons, hist>>

\* messageRepo.CreateBatch: inserts every row in a transaction of its own
CreateBatch(r) ==
    /\ reqs[r].pc = "create"
    /\ \E ok \in StoreOutcomes :
         /\ storeErrs' = CountFault(ok)
         /\ IF ok
            THEN LET n == Len(reqs[r].customers)
                     rows == [i \in 1..n |->
                                 NewMessage(reqs[r].campaign, reqs[r].customers[i])]
                 IN  /\ messages' = messages \o rows
                     /\ hist' = hist \o [i \in 1..n |-> NewHist]
                     /\ reqs' = [reqs EXCEPT ![r].pc = "status",
                                             ![r].created =
                                                 [i \in 1..n |-> Len(messages) + i]]
            ELSE /\ reqs' = Return(r, "Internal")
                 /\ UNCHANGED <<messages, hist>>
    /\ UNCHANGED <<publisher, customers, worker, lists, campaigns, jobs, cons>>

\* campaignRepo.UpdateStatus(campaign.ID, sending), on the repository's own connection
\* (customerIDs is not read after the rows are built: the record lets it go here)
UpdateStatus(r) ==
    /\ reqs[r].pc = "status"
    /\ \E ok \in StoreOutcomes :
         /\ storeErrs' = CountFault(ok)
         /\ IF ok
            THEN /\ campaigns' = [campaigns EXCEPT ![reqs[r].campaign].status = "sending"]
                 /\ reqs' = [reqs EXCEPT ![r].pc = "commit", ![r].ids = <<>>]
            ELSE /\ reqs' = [Return(r, "Internal") EXCEPT ![r].ids = <<>>]
                 /\ UNCHANGED campaigns
    /\ UNCHANGED <<publisher, customers, worker, lists, messages, jobs, cons, hist>>

\* tx.Commit of the service's transaction (no statement ran on it)
Commit(r) ==
    /\ reqs[r].pc = "commit"
    /\ \E ok \in StoreOutcomes :
         /\ storeErrs' = CountFault(ok)
         /\ reqs' = IF ok
                    THEN [reqs EXCEPT ![r].pc = "publish", ![r].next = 1]
                    ELSE Return(r, "Internal")
    /\ UNCHANGED <<publisher, customers, worker, lists, campaigns, messages, jobs, cons, hist>>

\* one iteration of the publish loop; after the last one SendCampaign returns
Publish(r) ==
    /\ reqs[r].pc = "publish"
    /\ IF ~publisher
       THEN \* s.publisher is nil: PublishMessage dereferences it and panics
            /\ reqs' = Return(r, "panic")
            /\ UNCHANGED jobs
       ELSE \E published \in BOOLEAN :
              LET m == reqs[r].created[reqs[r].next]
                  job == MessageJob(m, reqs[r].campaign, reqs[r].customers[reqs[r].next])
              IN  /\ jobs' = IF published THEN Append(jobs, NewJob(job)) ELSE jobs
                  /\ reqs' = IF reqs[r].next = Len(reqs[r].created)
                             THEN ReturnResult(r)
                             ELSE [reqs EXCEPT ![r].next = @ + 1]
    /\ UNCHANGED <<publisher, customers, worker, lists, campaigns, messages, cons, hist, storeErrs>>

\* The override_template values a Preview request is tried with: none, the
\* empty string, and one text
OverrideSample == <<"Hello ", "{", "first_name", "}">>

Overrides == {{}, {<<>>}, {OverrideSample}}

\* mutation: the override is not looked at
ResolveTemplate_IgnoresOverride(override, base) == base

\* template := campaign.BaseTemplate; the override replaces it when it is not
\* nil and not ""
ResolveTemplate(override, base) ==
    IF override # {} /\ override # {<<>>} THEN CHOOSE t \in override : TRUE ELSE base

\* mutation: the preview is saved as a Message row
PreviewMessage_SavesRow(r, cid, custid, override) ==
    /\ reqs[r].pc = "idle"
    /\ cid \in DOMAIN campaigns /\ custid \in DOMAIN customers
    /\ Len(messages) + RowsInFlight(DOMAIN reqs) < MaxMsgs
    /\ LET template == ResolveTemplate(override, campaigns[cid].base_template)
       IN  /\ ~RenderFails(template)
           /\ messages' = Append(messages, NewMessage(cid, custid))
           /\ hist' = Append(hist, NewHist)
           /\ reqs' = [reqs EXCEPT ![r] =
                          [IdleRequest EXCEPT
                              !.campaign = cid, !.customer = custid,
                              !.outcome = "OK", !.override = override,
                              !.used = template,
                              !.rendered = Render(template, customers[custid])]]
    /\ UNCHANGED <<publisher, customers, worker, lists, campaigns, jobs, cons,
                   storeErrs>>

\* CampaignService.PreviewMessage: load the Campaign and the customer, pick the
\* template, render; nothing is written
PreviewMessage(r, cid, custid, override) ==
    /\ reqs[r].pc = "idle"
    /\ \E fault \in {"none"} \cup
                    (IF storeErrs < MaxStoreFaults
                     THEN {"campaign", "customer"} ELSE {}) :
         LET template == ResolveTemplate(override, campaigns[cid].base_template)
             outcome ==
                 IF fault = "campaign" \/ cid \notin DOMAIN campaigns THEN "NotFound"
                 ELSE IF fault = "customer" \/ custid \notin DOMAIN customers
                      THEN "NotFound"
                 ELSE IF RenderFails(template) THEN "Internal"
                 ELSE "OK"
         IN  /\ fault = "customer" => cid \in DOMAIN campaigns
             /\ storeErrs' = IF fault = "none" THEN storeErrs ELSE storeErrs + 1
             /\ reqs' = [reqs EXCEPT ![r] =
                            IF outcome = "OK"
                            THEN [IdleRequest EXCEPT
                                     !.campaign = cid,
                                     !.customer = custid,
                                     !.outcome = outcome,
                                     !.override = override,
                                     !.used = template,
                                     !.rendered = Render(template, customers[custid])]
                            ELSE [IdleRequest EXCEPT !.campaign = cid,
                                                     !.customer = custid,
                                                     !.override = override,
                                                     !.outcome = outcome]]
    /\ UNCHANGED <<publisher, customers, worker, lists, campaigns, messages, jobs, cons, hist>>

\* another producer puts a job on campaign_sends
ForeignPublish(body) ==
    /\ Cardinality(ForeignJobs) < MaxForeignJobs
    /\ jobs' = Append(jobs, NewJob(body))
    /\ UNCHANGED <<publisher, customers, worker, lists, campaigns, messages, cons, reqs, hist, storeErrs>>

\* jobs on the queue beyond one per published message
Duplicates ==
    Cardinality(JobIDs \ ForeignJobs)
        - Cardinality({m \in MessageIDs : Published(m)})

\* at-least-once delivery: the broker hands out the job of message m once more
\* than it was published (a delivery whose ack did not reach it, a republish)
DuplicateDelivery(m) ==
    /\ m \in MessageIDs
    /\ Published(m)
    /\ Duplicates < MaxDuplicates
    /\ \E j \in JobsOf(m) : jobs' = Append(jobs, NewJob(jobs[j].body))
    /\ UNCHANGED <<publisher, customers, worker, lists, campaigns, messages, cons, reqs, hist, storeErrs>>

----------------------------------------------------------------------------
(* GET /campaigns: CampaignHandler.List, CampaignService.ListCampaigns,      *)
(* campaignRepository.List; and the writers of the campaigns table           *)

\* strconv.Atoi of ?page= (0 stands for an absent, unparsable or non-positive
\* value): kept only when positive
ParsePage(raw) == IF raw > 0 THEN raw ELSE DefaultPage

\* mutation: the handler does not cap per_page
ParsePerPage_NoCap(raw) == IF raw > 0 THEN raw ELSE DefaultPageSize

\* ?per_page= : kept only when positive, then capped at 100
ParsePerPage(raw) ==
    LET perPage == IF raw > 0 THEN raw ELSE DefaultPageSize
    IN  IF perPage > MaxPageSize THEN MaxPageSize ELSE perPage

\* campaignRepository.List: limit := filters.PageSize, 20 if <= 0, 100 if > 100
Limit(pageSize) ==
    IF pageSize <= 0 THEN DefaultPageSize
    ELSE IF pageSize > MaxPageSize THEN MaxPageSize
    ELSE pageSize

\* mutation: the offset skips page rows too many
Offset_OnePageAhead(page, limit) == page * limit

\* offset := (filters.Page - 1) * limit, 0 if negative
Offset(page, limit) ==
    IF (page - 1) * limit < 0 THEN 0 ELSE (page - 1) * limit

\* WHERE 1=1 [AND channel = $n] [AND status = $n]
Matches(row, filters) ==
    /\ filters.channel # NULL => row.channel = filters.channel
    /\ filters.status # NULL => row.status = filters.status

Matching(filters) == {id \in DOMAIN campaigns : Matches(campaigns[id], filters)}

\* the ids of S from n downwards
RECURSIVE Descending(_, _)
Descending(n, S) ==
    IF n = 0 THEN <<>>
    ELSE (IF n \in S THEN <<n>> ELSE <<>>) \o Descending(n - 1, S)

\* mutation: ORDER BY (status = 'sending') DESC, id DESC
OrderBy_SendingFirst(S) ==
    LET sending == {id \in S : campaigns[id].status = "sending"}
    IN  Descending(Len(campaigns), sending) \o Descending(Len(campaigns), S \ sending)

\* ORDER BY id DESC
OrderBy(S) == Descending(Len(campaigns), S)

\* ... ORDER BY id DESC LIMIT limit OFFSET offset: the ids of the rows returned
SelectPage(filters, page, pageSize) ==
    LET rows == OrderBy(Matching(filters))
        limit == Limit(pageSize)
        offset == Offset(page, limit)
        last == IF offset + limit < Len(rows) THEN offset + limit ELSE Len(rows)
    IN  SubSeq(rows, offset + 1, last)

\* PaginationInfo.PageSize as ListCampaigns reports it: 20 if filters.PageSize <= 0
ReportedPageSize(pageSize) == IF pageSize <= 0 THEN DefaultPageSize ELSE pageSize

\* (total + pageSize - 1) / pageSize
TotalPages(total, pageSize) == (total + pageSize - 1) \div pageSize

\* the filters tried: none, and a status with a channel (values the handler accepts)
NoFilter == [status |-> NULL, channel |-> NULL]

SampledFilters == {NoFilter, [status |-> "draft", channel |-> "sms"]}

RawPages == 0..3
RawPerPages == {-1, 0, MaxPageSize + 50}

\* a request that failed in the Store: the response is an error, no rows
Failed(req) ==
    [req EXCEPT !.pc = "done", !.err = TRUE, !.ids = <<>>, !.page = 0, !.seen = 0]

\* List up to the row query: parse the query string, build the filters, run
\* SELECT ... ORDER BY id DESC LIMIT OFFSET.  The requests of one run come from
\* one client paging through one query: same per_page and filters throughout.
\* seen notes how many rows the table held when the row query ran.
ListSelect(rawPage, rawPerPage, filters) ==
    /\ Len(lists) < MaxLists
    /\ lists # <<>> =>
          /\ lists[Len(lists)].pc = "done"
          /\ rawPerPage = lists[1].raw_per_page
          /\ filters = lists[1].filters
    /\ \E ok \in StoreOutcomes :
         LET page == ParsePage(rawPage)
             perPage == ParsePerPage(rawPerPage)
             req == [pc |-> "count", err |-> FALSE, raw_per_page |-> rawPerPage,
                     filters |-> filters, page |-> page, per_page |-> perPage,
                     ids |-> SelectPage(filters, page, perPage),
                     seen |-> Len(campaigns),
                     page_size |-> 0, total_count |-> 0, total_pages |-> 0]
         IN  /\ storeErrs' = CountFault(ok)
             /\ lists' = Append(lists, IF ok THEN req ELSE Failed(req))
    /\ UNCHANGED <<publisher, customers, worker, campaigns, messages, jobs, cons,
                   reqs, hist>>

\* the rest of List: SELECT COUNT(*) with the same filters, then the service
\* builds PaginationInfo and the handler writes the response
ListCount ==
    /\ lists # <<>>
    /\ lists[Len(lists)].pc = "count"
    /\ \E ok \in StoreOutcomes :
         LET req == lists[Len(lists)]
             total == Cardinality(Matching(req.filters))
             pageSize == ReportedPageSize(req.per_page)
         IN  /\ storeErrs' = CountFault(ok)
             /\ lists' = [lists EXCEPT ![Len(lists)] =
                             IF ok
                             THEN [req EXCEPT !.pc = "done",
                                              !.page_size = pageSize,
                                              !.total_count = total,
                                              !.total_pages = TotalPages(total, pageSize)]
                             ELSE Failed(req)]
    /\ UNCHANGED <<publisher, customers, worker, campaigns, messages, jobs, cons,
                   reqs, hist>>

\* the row CreateCampaign inserts for a valid request without scheduled_at
NewCampaign(channel, template) ==
    [status |-> "draft", channel |-> channel, base_template |-> template]

\* CampaignService.CreateCampaign for a request with a name and the channel sms:
\* req.Validate (base_template required), ValidateTemplate, then the INSERT;
\* the new row takes the next id.  The record keeps the request's template.
CreateCampaign(r, template) ==
    /\ reqs[r].pc = "idle"
    /\ Len(campaigns) < NumListed + MaxInserts
    /\ IF template = <<>> \/ ~ValidateTemplate(template)
       THEN /\ reqs' = [reqs EXCEPT ![r] =
                           [IdleRequest EXCEPT !.outcome = "Validation",
                                               !.template = template]]
            /\ UNCHANGED <<campaigns, storeErrs>>
       ELSE \E ok \in StoreOutcomes :
              /\ storeErrs' = CountFault(ok)
              /\ campaigns' = IF ok
                              THEN Append(campaigns, NewCampaign("sms", template))
                              ELSE campaigns
              /\ reqs' = [reqs EXCEPT ![r] =
                             [IdleRequest EXCEPT
                                 !.outcome = IF ok THEN "OK" ELSE "Internal",
                                 !.campaign = IF ok THEN Len(campaigns) + 1 ELSE 0,
                                 !.template = template]]
    /\ UNCHANGED <<publisher, customers, worker, lists, messages, jobs, cons, hist>>

\* the campaign a dispatch is tried on while the table is being listed
SampledDispatches == {NumListed - DefaultPageSize}

\* what a SendCampaign call does to the campaigns table: UpdateStatus(sending)
\* on a Campaign that CanSend
Dispatch(cid) ==
    /\ cid \in DOMAIN campaigns
    /\ CanSend(campaigns[cid].status)
    /\ campaigns' = [campaigns EXCEPT ![cid].status = "sending"]
    /\ UNCHANGED <<publisher, customers, worker, lists, messages, jobs, cons, reqs,
                   hist, storeErrs>>

----------------------------------------------------------------------------
(* Consumer.Start's loop and the worker's message handler *)

SetCons(c, rec) == [cons EXCEPT ![c] = rec]

\* fetchMessageData finds the joined row (campaign and customer rows are never deleted)
RowExists(m) == m \in MessageIDs

NoteCall(m, res) ==
    [hist EXCEPT ![m] =
        [@ EXCEPT !.ok = IF res = Success THEN @ + 1 ELSE @,
                  !.fail = IF res = Success THEN @ ELSE @ + 1,
                  !.late = IF hist[m].sent THEN @ + 1 ELSE @]]

NoteFault(m, ok) == IF ok THEN hist ELSE [hist EXCEPT ![m].dberr = TRUE]

\* the row of m has just been written sent
NoteSent(m) == [hist EXCEPT ![m].sent = TRUE]

\* mutation: Start acks whatever processMessage returned
ReplyFor_AlwaysAck(err) == "ack"

\* the reply Start gives for what processMessage returned
ReplyFor(err) == IF err THEN "nack_requeue" ELSE "ack"

\* jobs delivered to consumer c and not yet acked or nacked
Unacked(c) == {j \in JobIDs : jobs[j].state = "unacked" /\ jobs[j].holder = c}

\* mutation: the channel has no prefetch limit
QosAllows_NoLimit(c) == TRUE

\* ch.Qos(1, 0, false): the broker sends a consumer no further delivery while
\* PrefetchCount of its deliveries are unacknowledged
QosAllows(c) == Cardinality(Unacked(c)) < PrefetchCount

\* the broker sends ready job j to consumer c: it lands on the msgs channel
Deliver(c, j) ==
    /\ j \in JobIDs
    /\ jobs[j].state = "ready"
    /\ worker.conn
    /\ QosAllows(c)
    /\ jobs' = [jobs EXCEPT ![j].state = "unacked", ![j].holder = c]
    /\ cons' = [cons EXCEPT ![c].inbox = Append(@, j)]
    /\ UNCHANGED <<publisher, customers, worker, lists, campaigns, messages, reqs, hist, storeErrs>>

\* Start's loop takes the next delivery from msgs; processMessage unmarshals
\* the body and the handler fetches the joined row
Receive(c) ==
    /\ cons[c].pc = "idle"
    /\ cons[c].inbox # <<>>
    /\ LET j == Head(cons[c].inbox)
           body == jobs[j].body
           m == body.message_id
           taken == [IdleConsumer EXCEPT !.inbox = Tail(cons[c].inbox), !.job = j]
       IN  IF UnmarshalFails(body)
           THEN /\ cons' = SetCons(c, [taken EXCEPT !.pc = "reply",
                                           !.err = TRUE, !.branch = "unmarshal"])
                /\ UNCHANGED <<hist, storeErrs>>
           ELSE \E ok \in (IF RowExists(m) THEN StoreOutcomes ELSE {TRUE}) :
                  /\ storeErrs' = CountFault(ok)
                  /\ IF ok /\ RowExists(m)
                     THEN /\ cons' = SetCons(c, [taken EXCEPT
                                           !.pc = "fetched",
                                           !.retry = messages[m].retry_count])
                          /\ UNCHANGED hist
                     ELSE /\ cons' = SetCons(c, [taken EXCEPT
                                           !.pc = "reply",
                                           !.err = TRUE, !.branch = "load"])
                          /\ hist' = IF RowExists(m) THEN NoteFault(m, ok) ELSE hist
    /\ UNCHANGED <<publisher, customers, worker, lists, campaigns, messages, jobs, reqs>>

\* the handler after a successful fetch: retry-limit check, render, gateway call
Process(c) ==
    /\ cons[c].pc = "fetched"
    /\ LET m == jobs[cons[c].job].body.message_id
           template == campaigns[messages[m].campaign_id].base_template
       IN  IF RetryLimitReached(cons[c].retry)
           THEN \E ok \in StoreOutcomes :
                  /\ storeErrs' = CountFault(ok)
                  /\ messages' = IF ok
                                 THEN [messages EXCEPT
                                          ![m] = updateMessagePermanentFailure(@)]
                                 ELSE messages
                  /\ hist' = NoteFault(m, ok)
                  /\ cons' = SetCons(c, [cons[c] EXCEPT !.pc = "reply", !.err = FALSE,
                                            !.branch = "exhausted", !.updated = ok])
           ELSE IF RenderFails(template)
           THEN \E ok \in StoreOutcomes :
                  /\ storeErrs' = CountFault(ok)
                  /\ messages' = IF ok
                                 THEN [messages EXCEPT
                                    ![m] = updateMessageFailure(@, TemplateEmptyMsg)]
                                 ELSE messages
                  /\ hist' = NoteFault(m, ok)
                  /\ cons' = SetCons(c, [cons[c] EXCEPT !.pc = "reply", !.err = TRUE,
                                            !.branch = "render", !.updated = ok])
           ELSE \E res \in SendOutcomes :
                  /\ hist' = NoteCall(m, res)
                  /\ cons' = SetCons(c, [cons[c] EXCEPT
                                            !.pc = "sent",
                                            !.rendered =
                                                Render(template,
                                                       customers[messages[m].customer_id]),
                                            !.result = res])
                  /\ UNCHANGED <<messages, storeErrs>>
    /\ UNCHANGED <<publisher, customers, worker, lists, campaigns, jobs, reqs>>

\* the handler after senderSvc.Send returned: record the outcome in the Store
Record(c) ==
    /\ cons[c].pc = "sent"
    /\ LET m == jobs[cons[c].job].body.message_id
           res == cons[c].result
       IN  \E ok \in StoreOutcomes :
             /\ storeErrs' = CountFault(ok)
             /\ hist' = IF ok /\ res = Success THEN NoteSent(m) ELSE NoteFault(m, ok)
             /\ IF res = Success
                THEN /\ messages' = IF ok
                                    THEN [messages EXCEPT ![m] = updateMessageSuccess(@)]
                                    ELSE messages
                     /\ cons' = SetCons(c, [cons[c] EXCEPT !.pc = "reply", !.err = ~ok,
                                               !.branch = "success", !.updated = ok])
                ELSE /\ messages' = IF ok
                                    THEN [messages EXCEPT
                                             ![m] = updateMessageFailure(@, res)]
                                    ELSE messages
                     /\ cons' = SetCons(c, [cons[c] EXCEPT !.pc = "reply", !.err = TRUE,
                                               !.branch = "failure", !.updated = ok])
    /\ UNCHANGED <<publisher, customers, worker, lists, campaigns, jobs, reqs>>

\* Start: d.Nack(false, true) when processMessage returned an error, else d.Ack(false)
Reply(c) ==
    /\ cons[c].pc = "reply"
    /\ LET j == cons[c].job
       IN  jobs' = IF ReplyFor(cons[c].err) = "ack"
                   THEN [jobs EXCEPT ![j].state = "acked", ![j].holder = 0]
                   ELSE [jobs EXCEPT ![j].state = "ready", ![j].holder = 0]
    /\ cons' = SetCons(c, [IdleConsumer EXCEPT !.inbox = cons[c].inbox])
    /\ UNCHANGED <<publisher, customers, worker, lists, campaigns, messages, reqs, hist, storeErrs>>

----------------------------------------------------------------------------
(* Shutdown of the worker process *)

\* main receives SIGINT/SIGTERM and calls consumer.Stop, which closes stopChan
Signal ==
    /\ worker.pc = "running"
    /\ worker' = [worker EXCEPT !.pc = "stopping", !.stopChan = TRUE]
    /\ UNCHANGED <<publisher, customers, lists, campaigns, messages, jobs, cons, reqs,
                   hist, storeErrs>>

\* Start's loop is at its select and picks the closed stopChan: the goroutine
\* returns and the deferred close(doneChan) runs
LoopExit(c) ==
    /\ cons[c].pc = "idle"
    /\ worker.stopChan
    /\ cons' = [cons EXCEPT ![c].pc = "exited"]
    /\ UNCHANGED <<publisher, customers, worker, lists, campaigns, messages, jobs, reqs,
                   hist, storeErrs>>

\* mutation: Stop returns without waiting for the loop
StopWaits_NoWait(c) == TRUE

\* Stop blocks on <-c.doneChan until the loop of consumer c has returned
StopWaits(c) == cons[c].pc = "exited"

\* consumer.Stop returns to main
StopReturns ==
    /\ worker.pc = "stopping"
    /\ \A c \in Consumers : StopWaits(c)
    /\ worker' = [worker EXCEPT !.pc = "closing"]
    /\ UNCHANGED <<publisher, customers, lists, campaigns, messages, jobs, cons, reqs,
                   hist, storeErrs>>

\* conn.Close(): the broker requeues every delivery the connection left
\* unacknowledged, and the msgs channel is closed
CloseConn ==
    /\ worker.pc = "closing"
    /\ worker' = [worker EXCEPT !.pc = "closed_conn", !.conn = FALSE]
    /\ jobs' = [j \in JobIDs |->
                  IF jobs[j].state = "unacked"
                  THEN [jobs[j] EXCEPT !.state = "ready", !.holder = 0]
                  ELSE jobs[j]]
    /\ cons' = [c \in Consumers |-> [cons[c] EXCEPT !.inbox = <<>>]]
    /\ UNCHANGED <<publisher, customers, lists, campaigns, messages, reqs, hist, storeErrs>>

\* db.Close()
CloseDB ==
    /\ worker.pc = "closed_conn"
    /\ worker' = [worker EXCEPT !.pc = "stopped", !.db = FALSE]
    /\ UNCHANGED <<publisher, customers, lists, campaigns, messages, jobs, cons, reqs,
                   hist, storeErrs>>

----------------------------------------------------------------------------
(* Specifications *)

Next ==
    \/ \E r \in Requests, cid \in 1..(NumCampaigns + 1), ids \in RecipientLists :
           SendBegin(r, cid, ids)
    \/ \E r \in Requests : CreateBatch(r)
    \/ \E r \in Requests : UpdateStatus(r)
    \/ \E r \in Requests : Commit(r)
    \/ \E r \in Requests : Publish(r)
    \/ \E body \in ForeignBodies : ForeignPublish(body)
    \/ \E c \in Consumers, j \in JobIDs : Deliver(c, j)
    \/ \E c \in Consumers : Receive(c)
    \/ \E c \in Consumers : Process(c)
    \/ \E c \in Consumers : Record(c)
    \/ \E c \in Consumers : Reply(c)

Spec == Init /\ [][Next]_vars

MaxJobs == MaxMsgs + MaxForeignJobs

\* the worker runs every step of a delivery it has begun, the request handler
\* finishes a call it has begun, and the broker does not starve a ready job
Fairness ==
    /\ \A c \in Consumers :
          WF_vars(Process(c)) /\ WF_vars(Record(c)) /\ WF_vars(Reply(c))
    /\ \A r \in Requests :
          WF_vars(CreateBatch(r) \/ UpdateStatus(r) \/ Commit(r) \/ Publish(r))
    /\ \A c \in Consumers : WF_vars(Receive(c))
    /\ \A j \in 1..MaxJobs : SF_vars(\E c \in Consumers : Deliver(c, j))

FairSpec == Spec /\ Fairness

\* the same program on a broker that may deliver a job more than once
DupNext ==
    \/ \E r \in Requests, cid \in 1..(NumCampaigns + 1), ids \in RecipientLists :
           SendBegin(r, cid, ids)
    \/ \E r \in Requests : CreateBatch(r)
    \/ \E r \in Requests : UpdateStatus(r)
    \/ \E r \in Requests : Commit(r)
    \/ \E r \in Requests : Publish(r)
    \/ \E m \in MessageIDs : DuplicateDelivery(m)
    \/ \E c \in Consumers, j \in JobIDs : Deliver(c, j)
    \/ \E c \in Consumers : Receive(c)
    \/ \E c \in Consumers : Process(c)
    \/ \E c \in Consumers : Record(c)
    \/ \E c \in Consumers : Reply(c)

DupSpec == Init /\ [][DupNext]_vars

\* the dispatch pipeline with a worker that may be told to terminate
StopInit ==
    /\ Init
    /\ publisher
    /\ \A cid \in CampaignIDs : campaigns[cid].status = "draft"

StopNext ==
    \/ \E r \in Requests, cid \in 1..(NumCampaigns + 1), ids \in RecipientLists :
           SendBegin(r, cid, ids)
    \/ \E r \in Requests : CreateBatch(r)
    \/ \E r \in Requests : UpdateStatus(r)
    \/ \E r \in Requests : Commit(r)
    \/ \E r \in Requests : Publish(r)
    \/ \E c \in Consumers, j \in JobIDs : Deliver(c, j)
    \/ \E c \in Consumers : Receive(c)
    \/ \E c \in Consumers : Process(c)
    \/ \E c \in Consumers : Record(c)
    \/ \E c \in Consumers : Reply(c)
    \/ Signal
    \/ \E c \in Consumers : LoopExit(c)
    \/ StopReturns
    \/ CloseConn
    \/ CloseDB

StopSpec == StopInit /\ [][StopNext]_vars

\* the dispatch pipeline with Preview requests alongside
PreviewNext ==
    \/ \E r \in Requests, cid \in 1..(NumCampaigns + 1), ids \in RecipientLists :
           SendBegin(r, cid, ids)
    \/ \E r \in Requests : CreateBatch(r)
    \/ \E r \in Requests : UpdateStatus(r)
    \/ \E r \in Requests : Commit(r)
    \/ \E r \in Requests : Publish(r)
    \/ \E c \in Consumers, j \in JobIDs : Deliver(c, j)
    \/ \E c \in Consumers : Receive(c)
    \/ \E c \in Consumers : Process(c)
    \/ \E c \in Consumers : Record(c)
    \/ \E c \in Consumers : Reply(c)
    \/ \E r \in Requests, cid \in 1..(NumCampaigns + 1),
          custid \in 1..(NumCustomers + 1), override \in Overrides :
           PreviewMessage(r, cid, custid, override)

PreviewSpec == StopInit /\ [][PreviewNext]_vars

\* Listing on its own: a table of NumListed campaigns that is listed page by
\* page while campaigns are created and dispatched.  The rows are those of
\* setupPaginationTest: channels alternate, statuses cycle.
ListedCampaign(id) ==
    [status |-> IF id % 4 = 0 THEN "draft"
                ELSE IF id % 4 = 1 THEN "scheduled"
                ELSE IF id % 4 = 2 THEN "sending" ELSE "sent",
     channel |-> IF id % 2 = 0 THEN "sms" ELSE "whatsapp",
     base_template |-> BaseTemplate]

ListInit ==
    /\ campaigns = [id \in 1..NumListed |-> ListedCampaign(id)]
    /\ customers = [i \in CustomerIDs |-> SeedCustomer(i)]
    /\ worker = RunningWorker
    /\ lists = <<>>
    /\ messages = <<>>
    /\ jobs = <<>>
    /\ cons = [c \in Consumers |-> IdleConsumer]
    /\ reqs = [r \in Requests |-> IdleRequest]
    /\ hist = <<>>
    /\ storeErrs = 0
    /\ publisher = TRUE

ListNext ==
    \/ \E rawPage \in RawPages, rawPerPage \in RawPerPages, filters \in SampledFilters :
           ListSelect(rawPage, rawPerPage, filters)
    \/ ListCount
    \/ \E r \in Requests : CreateCampaign(r, BaseTemplate)
    \/ \E cid \in SampledDispatches : Dispatch(cid)

ListSpec == ListInit /\ [][ListNext]_vars

\* SendCampaign on its own, called by NumCallers clients at once
RaceInit ==
    /\ campaigns = [cid \in CampaignIDs |-> [status |-> "draft",
                                             base_template |-> BaseTemplate]]
    /\ customers = [i \in CustomerIDs |-> SeedCustomer(i)]
    /\ worker = RunningWorker
    /\ lists = <<>>
    /\ messages = <<>>
    /\ jobs = <<>>
    /\ cons = [c \in Consumers |-> IdleConsumer]
    /\ reqs = [r \in 1..NumCallers |-> IdleRequest]
    /\ hist = <<>>
    /\ storeErrs = 0
    /\ publisher = TRUE

RaceNext ==
    \/ \E r \in 1..NumCallers, cid \in 1..(NumCampaigns + 1), ids \in RecipientLists :
           SendBegin(r, cid, ids)
    \/ \E r \in 1..NumCallers : CreateBatch(r)
    \/ \E r \in 1..NumCallers : UpdateStatus(r)
    \/ \E r \in 1..NumCallers : Commit(r)
    \/ \E r \in 1..NumCallers : Publish(r)

RaceSpec == RaceInit /\ [][RaceNext]_vars

\* Delivery on its own with NumWorkers worker instances on the queue: Campaign
\* 1 has been dispatched to Recipient 1, the Message row is pending and its
\* job is on the queue, and the broker may deliver the job more than once
WorkersInit ==
    /\ campaigns = [cid \in CampaignIDs |-> [status |-> "sending",
                                             base_template |-> BaseTemplate]]
    /\ customers = [i \in CustomerIDs |-> SeedCustomer(i)]
    /\ worker = RunningWorker
    /\ lists = <<>>
    /\ messages = <<NewMessage(1, 1)>>
    /\ jobs = <<NewJob(MessageJob(1, 1, 1))>>
    /\ cons = [c \in 1..NumWorkers |-> IdleConsumer]
    /\ reqs = [r \in Requests |-> IdleRequest]
    /\ hist = <<NewHist>>
    /\ storeErrs = 0
    /\ publisher = TRUE

WorkersNext ==
    \/ \E m \in MessageIDs : DuplicateDelivery(m)
    \/ \E c \in 1..NumWorkers, j \in JobIDs : Deliver(c, j)
    \/ \E c \in 1..NumWorkers : Receive(c)
    \/ \E c \in 1..NumWorkers : Process(c)
    \/ \E c \in 1..NumWorkers : Record(c)
    \/ \E c \in 1..NumWorkers : Reply(c)

WorkersSpec == WorkersInit /\ [][WorkersNext]_vars

\* the symbols texts are made of, and the texts of up to n symbols
Symbols == {"{", "}", "first_name", "location", "x"}

RECURSIVE Texts(_)
Texts(n) ==
    IF n = 0 THEN {<<>>}
    ELSE LET shorter == Texts(n - 1)
         IN  shorter \cup {Append(t, a) : t \in {u \in shorter : Len(u) = n - 1},
                                            a \in Symbols}

\* Campaign creation on its own: a table with room for one more row under the
\* bound, and requests whose base_template is any text up to MaxTemplateLen
CreateInit ==
    /\ campaigns = [id \in 1..(NumListed + MaxInserts - 1) |-> ListedCampaign(id)]
    /\ customers = [i \in CustomerIDs |-> SeedCustomer(i)]
    /\ worker = RunningWorker
    /\ lists = <<>>
    /\ messages = <<>>
    /\ jobs = <<>>
    /\ cons = [c \in Consumers |-> IdleConsumer]
    /\ reqs = [r \in Requests |-> IdleRequest]
    /\ hist = <<>>
    /\ storeErrs = 0
    /\ publisher = TRUE

\* each request slot takes one request in a run
CreateNext ==
    \E r \in Requests, template \in Texts(MaxTemplateLen) :
        reqs[r].outcome = NULL /\ CreateCampaign(r, template)

CreateSpec == CreateInit /\ [][CreateNext]_vars

\* Rendering on its own: the templates and the customer values are drawn from
\* bounded sets, and Preview requests render them.

\* base_template of a stored Campaign passed ValidateTemplate in CreateCampaign
Templates == {t \in Texts(MaxTemplateLen) : ValidateTemplate(t)}

\* first_name: NULL, "", a name, a text that reads as a placeholder
SampledCustomers ==
    {[first_name |-> f, last_name |-> {}, location |-> l,
      preferred_product |-> {}, phone |-> Phone(1)] :
        f \in {{}, {<<>>}, {Alice}, {Placeholder("location")}},
        l \in {{}, {<<"Nairobi">>}}}

RenderInit ==
    /\ campaigns \in [CampaignIDs -> [status : {"draft"}, base_template : Templates]]
    /\ customers \in {[i \in CustomerIDs |-> IF i = 1 THEN c ELSE SeedCustomer(i)] :
                          c \in SampledCustomers}
    /\ messages = <<>>
    /\ jobs = <<>>
    /\ cons = [c \in Consumers |-> IdleConsumer]
    /\ reqs = [r \in Requests |-> IdleRequest]
    /\ hist = <<>>
    /\ storeErrs = 0
    /\ publisher = TRUE
    /\ worker = RunningWorker
    /\ lists = <<>>

\* each request slot takes one Preview of a stored Campaign for a stored
\* Recipient in a run
RenderNext ==
    \E r \in Requests, cid \in CampaignIDs, custid \in CustomerIDs,
       override \in Overrides :
        reqs[r].outcome = NULL /\ PreviewMessage(r, cid, custid, override)

RenderSpec == RenderInit /\ [][RenderNext]_vars

----------------------------------------------------------------------------
(* Vocabulary of the claims *)

GatewayCalls(m) == hist[m].ok + hist[m].fail

\* message m of the job consumer c is handling
MsgOf(c) == jobs[cons[c].job].body.message_id

Acked(m) == \E j \in JobsOf(m) : jobs[j].state = "acked"

\* consumer c takes the step that leaves position pc
Leaves(c, pc) == cons[c].pc = pc /\ cons'[c].pc # pc

----------------------------------------------------------------------------
(* C1: for every Message, over every sequence of deliveries, the gateway is *)
(* invoked at most 3 times.                                                 *)
C1_GatewayCallsAtMost3 ==
    \A m \in MessageIDs : GatewayCalls(m) <= 3

(* C2: a delivery that finds retry_count >= 3 makes no gateway call, writes *)
(* status = failed and last_error = "Exceeded maximum retry attempts (3)"   *)
(* (the row holds them whenever the Store accepted the update), is acked,   *)
(* and an acked job is never delivered again.                               *)
C2_ExhaustedDelivery ==
    [][ /\ \A c \in Consumers :
             /\ (Leaves(c, "fetched") /\ cons[c].retry >= 3) =>
                   /\ cons'[c].pc = "reply"
                   /\ ReplyFor(cons'[c].err) = "ack"
                   /\ GatewayCalls(MsgOf(c))' = GatewayCalls(MsgOf(c))
                   /\ cons'[c].updated =>
                         messages'[MsgOf(c)] =
                             [messages[MsgOf(c)] EXCEPT
                                 !.status = "failed",
                                 !.last_error = "Exceeded maximum retry attempts (3)"]
             /\ (Leaves(c, "reply") /\ cons[c].branch = "exhausted") =>
                   jobs'[cons[c].job].state = "acked"
        /\ \A j \in JobIDs : jobs[j].state = "acked" => jobs'[j].state = "acked"
      ]_vars

C2_Witness ==
    \E m \in MessageIDs :
        /\ Acked(m)
        /\ messages[m].retry_count >= 3
        /\ messages[m].status = "failed"
        /\ messages[m].last_error = ExceededMsg

(* C3: every job put on the queue, whatever its body and whatever the state *)
(* of the Store, is eventually acked (no infinite requeue loop).            *)
C3_EveryJobEventuallyAcked ==
    \A j \in 1..MaxJobs :
        (j \in JobIDs) ~> (j \in JobIDs /\ jobs[j].state = "acked")

(* C4: when loading the joined row fails for a delivered job, the reply is  *)
(* ack (not nack, not requeue).                                             *)
C4_LoadFailureAcked ==
    \A c \in Consumers :
        (cons[c].pc = "reply" /\ cons[c].branch = "load") =>
            ReplyFor(cons[c].err) = "ack"

(* C5: when the gateway call fails the worker writes status = failed,       *)
(* retry_count + 1 and last_error = the failure reason (the row holds them  *)
(* whenever the Store accepted the update) and the reply is                 *)
(* nack-with-requeue: the job is ready for redelivery again.                *)
C5_FailureDelivery ==
    [][ \A c \in Consumers :
          /\ (Leaves(c, "sent") /\ cons[c].result # Success) =>
                /\ cons'[c].pc = "reply"
                /\ ReplyFor(cons'[c].err) = "nack_requeue"
                /\ cons'[c].updated =>
                      messages'[MsgOf(c)] =
                          [messages[MsgOf(c)] EXCEPT
                              !.status = "failed",
                              !.retry_count = messages[MsgOf(c)].retry_count + 1,
                              !.last_error = cons[c].result]
                /\ ~cons'[c].updated => messages'[MsgOf(c)] = messages[MsgOf(c)]
          /\ (Leaves(c, "reply") /\ cons[c].branch = "failure") =>
                jobs'[cons[c].job].state = "ready"
      ]_vars

C5_Witness ==
    \E c \in Consumers :
        /\ cons[c].pc = "reply"
        /\ cons[c].branch = "failure"
        /\ cons[c].updated
        /\ messages[MsgOf(c)].retry_count = 2
        /\ messages[MsgOf(c)].last_error = cons[c].result

(* C6: when the gateway call succeeds the worker writes status = sent and   *)
(* last_error cleared (null), and the job is acked.                         *)
C6_SuccessDelivery ==
    [][ \A c \in Consumers :
          (Leaves(c, "sent") /\ cons[c].result = Success /\ cons'[c].updated) =>
              /\ messages'[MsgOf(c)].status = "sent"
              /\ messages'[MsgOf(c)].last_error = NULL
              /\ ReplyFor(cons'[c].err) = "ack"
      ]_vars

(* C7: a Message for which the gateway failed exactly twice and then        *)
(* succeeded ends with status = sent, retry_count = 2, last_error cleared,  *)
(* after exactly 3 gateway invocations.                                     *)
C7_RetryThenSuccess ==
    \A m \in MessageIDs :
        (Acked(m) /\ hist[m].fail = 2 /\ hist[m].ok = 1 /\ ~hist[m].dberr) =>
            /\ messages[m].status = "sent"
            /\ messages[m].retry_count = 2
            /\ messages[m].last_error = NULL
            /\ GatewayCalls(m) = 3

\* the outcome the retry-exhaustion scenario ends with
Exhausted(m) ==
    /\ Acked(m)
    /\ messages[m].status = "failed"
    /\ messages[m].retry_count = 3
    /\ messages[m].last_error = "Exceeded maximum retry attempts (3)"
    /\ GatewayCalls(m) = 3

(* C8: when every gateway call for a Message fails, the Message ends with   *)
(* status = failed, retry_count = 3, last_error = "Exceeded maximum retry   *)
(* attempts (3)" after exactly 3 gateway invocations: once its job is acked *)
(* without any gateway success, that is the outcome.                        *)
C8_RetryExhaustion ==
    \A m \in MessageIDs :
        (Acked(m) /\ hist[m].ok = 0) => Exhausted(m)

(* C9: a job is acked only after the Store update recording the outcome of  *)
(* that delivery has succeeded: if the update fails the job is not acked.   *)
C9_AckOnlyAfterUpdate ==
    \A c \in Consumers :
        (cons[c].pc = "reply" /\ ReplyFor(cons[c].err) = "ack") => cons[c].updated

\* a terminal outcome of a Message
Terminal(m) ==
    \/ messages[m].status = "sent"
    \/ messages[m].status = "failed" /\ messages[m].retry_count = 3

C11_SentThenAtMostOneCall ==
    \A m \in MessageIDs :
        hist[m].late <= (IF Cardinality(JobsOf(m)) > 1 THEN 1 ELSE 0)

(* C12: once a Message's status is sent no later write changes its row:     *)
(* status stays sent, retry_count and last_error stay as they are.          *)
C12_SentRowFrozen ==
    [][ \A m \in MessageIDs :
          messages[m].status = "sent" => messages'[m] = messages[m] ]_vars

\* the outcome the previous processing of m's job wrote is res
WroteOutcome(m, res) ==
    IF res = Success
    THEN messages[m].status = "sent"
    ELSE messages[m].status = "failed" /\ messages[m].last_error = res

(* C13: processing a job again, with the same gateway outcome as the        *)
(* processing before it, leaves the Message row (status, retry_count,       *)
(* last_error) as the first processing left it.                             *)
C13_SecondProcessingSameRow ==
    [][ \A c \in Consumers :
          (Leaves(c, "sent") /\ WroteOutcome(MsgOf(c), cons[c].result)) =>
              messages'[MsgOf(c)] = messages[MsgOf(c)] ]_vars

(* C14: every Message's retry_count is >= 0 and no write to the row         *)
(* decreases it.                                                            *)
C14_RetryCountMonotone ==
    [][ /\ \A m \in 1..Len(messages') : messages'[m].retry_count >= 0
        /\ \A m \in MessageIDs :
              messages'[m].retry_count >= messages[m].retry_count ]_vars

C14_Witness ==
    \E m \in MessageIDs :
        /\ messages[m].retry_count = 3
        /\ messages[m].last_error = ExceededMsg
        /\ hist[m].sent

\* request r takes a step of its SendCampaign call
Steps(r) == reqs'[r] # reqs[r]

\* position of a campaign status along {draft, scheduled} -> sending -> {sent, failed}
Rank(status) ==
    CASE status \in {"draft", "scheduled"} -> 0
      [] status = "sending" -> 1
      [] status \in {"sent", "failed"} -> 2

(* C15: the Message rows of a dispatch and the Campaign's move to sending    *)
(* are all-or-nothing for every reader: at no point does a Campaign have    *)
(* Message rows without being in sending, or is in sending without rows.    *)
C15_RowsAndStatusTogether ==
    \A cid \in CampaignIDs :
        (\E m \in MessageIDs : messages[m].campaign_id = cid)
            <=> campaigns[cid].status = "sending"

(* C16: a SendCampaign call goes past validation only for a Campaign in     *)
(* draft or scheduled; for a Campaign it loaded in sending, sent or failed  *)
(* it returns a BusinessLogicError naming that status, and creates no       *)
(* Message row and publishes no job.                                        *)
C16_SendOnlyFromDraftOrScheduled ==
    [][ \A r \in Requests :
          (reqs[r].pc = "idle" /\ Steps(r)) =>
              LET cid == reqs'[r].campaign
              IN  /\ reqs'[r].pc = "create" =>
                         campaigns[cid].status \in {"draft", "scheduled"}
                  /\ (/\ cid \in CampaignIDs
                       /\ campaigns[cid].status \in {"sending", "sent", "failed"}
                       /\ storeErrs' = storeErrs) =>
                         /\ reqs'[r].pc = "idle"
                         /\ reqs'[r].outcome = "BusinessLogic"
                         /\ reqs'[r].status = campaigns[cid].status
                         /\ messages' = messages
                         /\ jobs' = jobs
                         /\ campaigns' = campaigns ]_vars

C16_Witness ==
    \E r \in Requests :
        /\ reqs[r].pc = "idle"
        /\ reqs[r].outcome = "BusinessLogic"
        /\ reqs[r].status = "sending"
        /\ Len(messages) > 0

(* C17: every Campaign's status is one of draft, scheduled, sending, sent,  *)
(* failed, and no write moves it backward along the transition graph        *)
(* {draft, scheduled} -> sending -> {sent, failed}.                         *)
C17_StatusNeverBackward ==
    [][ \A cid \in CampaignIDs :
          /\ campaigns'[cid].status \in
                 {"draft", "scheduled", "sending", "sent", "failed"}
          /\ Rank(campaigns'[cid].status) >= Rank(campaigns[cid].status) ]_vars

C17_Witness ==
    \E cid \in CampaignIDs, r \in Requests :
        /\ campaigns[cid].status = "sending"
        /\ reqs[r].campaign = cid
        /\ reqs[r].outcome = "OK"

(* C18: once the rows are committed, a failing publish (or a service with   *)
(* no publisher) does not fail the call: every step of the publish loop     *)
(* leaves the Message rows and the Campaign as they are, and the call ends  *)
(* with success, messages_queued = N and status sending.                    *)
C18_PublishFailureStillSucceeds ==
    [][ \A r \in Requests :
          (reqs[r].pc = "publish" /\ Steps(r)) =>
              /\ messages' = messages
              /\ campaigns' = campaigns
              /\ reqs'[r].pc \in {"publish", "idle"}
              /\ reqs'[r].pc = "idle" =>
                     /\ reqs'[r].outcome = "OK"
                     /\ reqs'[r].queued = Len(reqs[r].created)
                     /\ reqs'[r].status = "sending" ]_vars

(* C19: a job for a Message is published only after the transaction that    *)
(* created the Message row has committed: every job on the queue names a    *)
(* row that is in the Store, and no call that has yet to commit has         *)
(* published a job for a row it created.                                    *)
C19_PublishAfterCommit ==
    /\ \A j \in JobIDs : jobs[j].body.message_id \in MessageIDs
    /\ \A r \in Requests :
          reqs[r].pc \in {"create", "status", "commit"} =>
              \A i \in DOMAIN reqs[r].created : ~Published(reqs[r].created[i])

C19_Witness ==
    \E j \in JobIDs :
        /\ jobs[j].state = "ready"
        /\ jobs[j].body.message_id \in MessageIDs
        /\ messages[jobs[j].body.message_id].status = "pending"
        /\ \E r \in Requests : reqs[r].pc = "publish"

(* C20: a successful SendCampaign inserts exactly one Message per loaded    *)
(* Recipient, each with status pending, retry_count 0 and no rendered       *)
(* content; its publish loop publishes one job per created Message, in      *)
(* order, carrying the Message's id, campaign id and recipient id (a        *)
(* publish the broker refuses adds none); it returns messages_queued = the  *)
(* number of Messages created and status sending.                           *)
C20_SuccessfulDispatch ==
    [][ \A r \in Requests :
          /\ (reqs[r].pc = "create" /\ reqs'[r].pc = "status") =>
                LET n == Len(reqs[r].customers)
                IN  /\ Len(messages') = Len(messages) + n
                    /\ reqs'[r].created = [i \in 1..n |-> Len(messages) + i]
                    /\ \A i \in 1..Len(messages) : messages'[i] = messages[i]
                    /\ \A i \in 1..n :
                          messages'[Len(messages) + i] =
                              [campaign_id |-> reqs[r].campaign,
                               customer_id |-> reqs[r].customers[i],
                               status |-> "pending",
                               rendered_content |-> NULL,
                               last_error |-> NULL,
                               retry_count |-> 0]
          /\ (reqs[r].pc = "publish" /\ Steps(r) /\ reqs'[r].outcome # "panic") =>
                LET i == reqs[r].next
                    m == reqs[r].created[i]
                IN  /\ \/ jobs' = jobs
                       \/ jobs' = Append(jobs,
                              [body |-> [json |-> TRUE,
                                         message_id |-> m,
                                         campaign_id |-> messages[m].campaign_id,
                                         customer_id |-> messages[m].customer_id],
                               state |-> "ready", holder |-> 0])
                    /\ IF i < Len(reqs[r].created)
                       THEN reqs'[r].pc = "publish" /\ reqs'[r].next = i + 1
                       ELSE /\ reqs'[r].pc = "idle"
                            /\ reqs'[r].outcome = "OK"
                            /\ reqs'[r].queued = Len(reqs[r].customers)
                            /\ reqs'[r].queued = Len(reqs[r].created)
                            /\ reqs'[r].status = "sending" ]_vars

C20_Witness ==
    \E r \in Requests :
        /\ reqs[r].outcome = "OK"
        /\ reqs[r].queued = 2
        /\ Len(messages) = 2
        /\ \A m \in MessageIDs : Cardinality(JobsOf(m)) = 1

\* positions of the requested list that name an existing Recipient
Occurrences(ids) == {i \in DOMAIN ids : ids[i] \in CustomerIDs}

\* the existing Recipients that the requested list names
Named(ids) == {ids[i] : i \in Occurrences(ids)}

(* C21 as stated: when the recipient list of a dispatch names the same      *)
(* Recipient more than once, each occurrence gets its own Message row: the  *)
(* dispatch inserts as many rows as the list has occurrences of existing    *)
(* Recipients.                                                              *)
C21_RowPerOccurrence ==
    [][ \A r \in Requests :
          (reqs[r].pc = "create" /\ reqs'[r].pc = "status") =>
              Len(messages') - Len(messages) = Cardinality(Occurrences(reqs[r].ids))
      ]_vars

(* C21: a dispatch inserts exactly one Message row for each distinct        *)
(* existing Recipient that its list names, however many times the list      *)
(* names it, and every job it publishes is the job of one of those rows.    *)
C21_RowPerDistinctRecipient ==
    [][ \A r \in Requests :
          /\ (reqs[r].pc = "create" /\ reqs'[r].pc = "status") =>
                LET new == (Len(messages) + 1)..Len(messages')
                IN  /\ Cardinality(new) = Cardinality(Named(reqs[r].ids))
                    /\ {messages'[m].customer_id : m \in new} = Named(reqs[r].ids)
                    /\ \A m \in new : messages'[m].campaign_id = reqs[r].campaign
                    /\ reqs'[r].created = SortedSeq(new)
          /\ (reqs[r].pc = "publish" /\ Steps(r)) =>
                \A j \in (DOMAIN jobs') \ (DOMAIN jobs) :
                    /\ jobs'[j].body.message_id = reqs[r].created[reqs[r].next]
                    /\ JobsOf(jobs'[j].body.message_id) \cap DOMAIN jobs = {}
      ]_vars

C21_Witness ==
    \E r \in Requests :
        /\ Len(reqs[r].ids) = 2
        /\ reqs[r].ids[1] = reqs[r].ids[2]
        /\ reqs[r].pc = "status"
        /\ Len(reqs[r].created) = 1
        /\ messages[reqs[r].created[1]].customer_id = reqs[r].ids[1]

(* C22: SendCampaign on a dispatchable Campaign with an empty recipient     *)
(* list, or a list none of whose ids matches a Recipient, returns a         *)
(* validation error and leaves campaigns, messages and the queue untouched. *)
C22_NoRecipientsRejected ==
    [][ \A r \in Requests :
          (/\ reqs[r].pc = "idle" /\ Steps(r)
           /\ reqs'[r].campaign \in CampaignIDs
           /\ campaigns[reqs'[r].campaign].status \in {"draft", "scheduled"}
           /\ Occurrences(reqs'[r].ids) = {}
           /\ storeErrs' = storeErrs) =>
              /\ reqs'[r].pc = "idle"
              /\ reqs'[r].outcome = "Validation"
              /\ campaigns' = campaigns
              /\ messages' = messages
              /\ jobs' = jobs ]_vars

C22_Witness ==
    \E r \in Requests :
        /\ reqs[r].outcome = "Validation"
        /\ Len(reqs[r].ids) = 2
        /\ \A cid \in CampaignIDs : campaigns[cid].status \in {"draft", "scheduled"}
        /\ messages = <<>>

\* the text Render gives for the row's Campaign template and Recipient
RenderedFor(m) ==
    Render(campaigns[messages[m].campaign_id].base_template,
           customers[messages[m].customer_id])

(* C23: once the worker has delivered a Message (status sent), the row's    *)
(* rendered content is the Campaign template rendered for its Recipient.    *)
C23_SentRowHoldsRenderedContent ==
    \A m \in MessageIDs :
        messages[m].status = "sent" =>
            /\ messages[m].rendered_content # NULL
            /\ messages[m].rendered_content = RenderedFor(m)

\* the placeholders Render knows
Recognized == {"first_name", "last_name", "location", "preferred_product", "phone"}

\* the Recipient's value for a recognized field, "" when absent or empty
FieldValue(customer, field) ==
    IF field = "phone" THEN customer.phone ELSE ValueOf(customer[field])

RECURSIVE SubstituteFrom(_, _, _)
\* the template read once from position i: each recognized placeholder gives
\* way to the Recipient's value, every other symbol is copied
SubstituteFrom(template, customer, i) ==
    IF i > Len(template) THEN <<>>
    ELSE IF \E f \in Recognized : HasPrefixAt(template, Placeholder(f), i)
         THEN FieldValue(customer, template[i + 1])
                  \o SubstituteFrom(template, customer, i + 3)
         ELSE <<template[i]>> \o SubstituteFrom(template, customer, i + 1)

(* C30: the rendered text is the template with every occurrence of a        *)
(* recognized placeholder replaced by the Recipient's value (empty when the *)
(* value is absent or empty) and with every unrecognized placeholder and    *)
(* all other template text unchanged.                                       *)
C30_PlaceholdersReplacedRestUnchanged ==
    \A r \in Requests :
        (reqs[r].outcome = "OK" /\ reqs[r].used # <<>>) =>
            reqs[r].rendered =
                SubstituteFrom(reqs[r].used, customers[reqs[r].customer], 1)

(* C24: a consumer holds at most one unacknowledged job at any time: the    *)
(* broker never hands it a second job, and it never starts on a second job, *)
(* before it has acked or nacked the one it holds.                          *)
C24_OneUnackedJobPerConsumer ==
    \A c \in Consumers :
        /\ Cardinality(Unacked(c)) <= 1
        /\ Len(cons[c].inbox) <= 1
        /\ cons[c].pc # "idle" =>
              /\ cons[c].inbox = <<>>
              /\ Unacked(c) = {cons[c].job}

\* a consumer is busy with one job while another job waits, ready, on the queue
C24_Witness ==
    \E c \in Consumers :
        /\ cons[c].pc = "sent"
        /\ Unacked(c) = {cons[c].job}
        /\ \E j \in JobIDs : jobs[j].state = "ready"

\* consumer c is inside processMessage or about to reply for its job
MidJob(c) == cons[c].pc \in {"fetched", "sent", "reply"}

(* C25: on a termination signal the worker lets the job in work finish and  *)
(* be acked or nacked before it closes the queue connection, and closes the *)
(* database only after the connection: the loop returns only from its       *)
(* select, never from the middle of a job; while a job is in work both the  *)
(* connection and the database are open; the database is never closed       *)
(* before the connection.                                                   *)
C25_GracefulShutdown ==
    /\ \A c \in Consumers :
          /\ MidJob(c) => (worker.conn /\ worker.db)
          /\ ~worker.conn => cons[c].pc = "exited"
    /\ ~worker.db => ~worker.conn
    /\ \A j \in JobIDs : ~worker.conn => jobs[j].state # "unacked"

\* the signal has arrived while a job is in work
C25_Witness ==
    \E c \in Consumers :
        /\ worker.stopChan
        /\ worker.pc = "stopping"
        /\ cons[c].pc = "sent"
        /\ jobs[cons[c].job].state = "unacked"

\* the i-th request was answered with rows
Answered(i) == lists[i].pc = "done" /\ ~lists[i].err

IdsOf(i) == {lists[i].ids[k] : k \in DOMAIN lists[i].ids}

(* C26: for two pages p < q of the same query (same filters, same page      *)
(* size) no Campaign id is returned on both, also when Campaigns are        *)
(* inserted between the two requests.                                       *)
C26_PagesDisjoint ==
    \A i, j \in DOMAIN lists :
        (/\ Answered(i) /\ Answered(j)
         /\ lists[i].filters = lists[j].filters
         /\ lists[i].per_page = lists[j].per_page
         /\ lists[i].page < lists[j].page) =>
            IdsOf(i) \cap IdsOf(j) = {}

\* requests i, j, k read pages 1, 2, 3 of the unfiltered list, 20 a page: page
\* 1 of a table of NumListed campaigns, pages 2 and 3 after MaxInserts more
\* campaigns were created
ScenarioFour(i, j, k) ==
    /\ i < j /\ i < k
    /\ \A n \in {i, j, k} :
          /\ Answered(n)
          /\ lists[n].filters = NoFilter
          /\ lists[n].per_page = DefaultPageSize
    /\ lists[i].page = 1 /\ lists[j].page = 2 /\ lists[k].page = 3
    /\ lists[i].seen = NumListed
    /\ lists[j].seen = NumListed + MaxInserts
    /\ lists[k].seen = NumListed + MaxInserts

(* C27: with 45 Campaigns, page 1 read at page size 20, then 5 Campaigns     *)
(* inserted, then pages 2 and 3 read: the three pages together hold every    *)
(* one of the original 45, and none of the 5 new ones is on page 2 or 3.     *)
C27_NoOriginalMissedNoNewLater ==
    \A i, j, k \in DOMAIN lists :
        ScenarioFour(i, j, k) =>
            /\ (1..NumListed) \subseteq (IdsOf(i) \cup IdsOf(j) \cup IdsOf(k))
            /\ \A id \in IdsOf(j) \cup IdsOf(k) : id <= NumListed

C27_Witness ==
    /\ Len(lists) = 3
    /\ ScenarioFour(1, 2, 3)
    /\ Len(campaigns) = NumListed + MaxInserts

\* the rows of one response that another holds too, in the order of the first
Common(rows, others) ==
    LET shared == {others[k] : k \in DOMAIN others}
    IN  SelectSeq(rows, LAMBDA id : id \in shared)

(* C28: the rows of every response are in descending id order, and the      *)
(* Campaigns that two responses to the same query share come in the same    *)
(* relative order in both, whatever was inserted or changed status between  *)
(* or during the requests: each new response is ordered so, and agrees with *)
(* every earlier response on the rows they share.                           *)
C28_StableDescendingOrder ==
    [][ Len(lists') = Len(lists) + 1 =>
          LET rows == lists'[Len(lists')].ids
          IN  /\ \A k \in 1..(Len(rows) - 1) : rows[k] > rows[k + 1]
              /\ \A i \in DOMAIN lists :
                    lists[i].filters = lists'[Len(lists')].filters =>
                        Common(lists[i].ids, rows) = Common(rows, lists[i].ids)
      ]_vars

\* two responses share Campaigns; between the two row queries a Campaign was
\* inserted, and one of the shared Campaigns was dispatched (it was listed
\* scheduled and is sending now)
C28_Witness ==
    \E i, j \in DOMAIN lists :
        /\ i < j
        /\ Answered(i) /\ Answered(j)
        /\ lists[i].seen < lists[j].seen
        /\ lists[i].filters = NoFilter
        /\ \E x, y \in IdsOf(i) \cap IdsOf(j) :
              /\ x # y
              /\ ListedCampaign(x).status = "scheduled"
              /\ campaigns[x].status = "sending"

\* the page size the contract prescribes for a requested size
ClampedSize(raw) ==
    IF raw <= 0 THEN 20 ELSE IF raw > 100 THEN 100 ELSE raw

\* the rows the contract puts on a page of the given size: rows
\* (page-1)*size+1 .. page*size of the matching Campaigns by descending id
PageRows(filters, page, size) ==
    LET rows == Descending(Len(campaigns), Matching(filters))
        last == IF page * size < Len(rows) THEN page * size ELSE Len(rows)
    IN  SubSeq(rows, (page - 1) * size + 1, last)

Contains(text, part) == \E i \in 1..Len(text) : HasPrefixAt(text, part, i)

(* C31: a value put in for a placeholder is not itself scanned for          *)
(* placeholders: when the Recipient's first_name is the text "{location}"  *)
(* and the template holds {first_name}, the rendered text holds the        *)
(* literal "{location}".                                                    *)
C31_ValueAppearsLiterally ==
    \A r \in Requests :
        (/\ reqs[r].outcome = "OK"
         /\ Contains(reqs[r].used, Placeholder("first_name"))
         /\ ValueOf(customers[reqs[r].customer].first_name) = Placeholder("location")) =>
            Contains(reqs[r].rendered, Placeholder("location"))

\* request r holds the answer of a successful Preview
Previewed(r) == reqs[r].customer # 0 /\ reqs[r].outcome = "OK"

\* consumer c has rendered the text for the message of its job
HasRendered(c) == cons[c].pc = "sent"

PreviewStep(r) == reqs'[r] # reqs[r] /\ reqs'[r].customer # 0

(* C33: a Preview call leaves the Campaign, Recipient and Message rows and  *)
(* the queue as they were, and what it returns is fixed by the template it  *)
(* resolves and the Recipient alone: it is the same whether or not the      *)
(* Campaign has been dispatched.                                            *)
C33_PreviewHasNoEffect ==
    [][ \A r \in Requests :
          PreviewStep(r) =>
              /\ UNCHANGED <<campaigns, customers, messages, jobs>>
              /\ reqs'[r].outcome = "OK" =>
                    /\ reqs'[r].used =
                           ResolveTemplate(reqs'[r].override,
                                           campaigns[reqs'[r].campaign].base_template)
                    /\ reqs'[r].rendered =
                           Render(reqs'[r].used, customers[reqs'[r].customer])
      ]_vars

\* a Preview has answered for a Campaign that was dispatched: its status is
\* sending, its Message rows and jobs exist
C33_Witness ==
    \E r \in Requests :
        /\ Previewed(r)
        /\ campaigns[reqs[r].campaign].status = "sending"
        /\ \E m \in MessageIDs : messages[m].campaign_id = reqs[r].campaign
        /\ jobs # <<>>
        /\ reqs[r].rendered = <<"Hi ", "Alice", "!">>

\* HandleServiceError: the HTTP status and error code written for an error of
\* the service layer
HandleServiceError(outcome) ==
    CASE outcome = "NotFound" -> [status |-> 404, code |-> "RESOURCE_NOT_FOUND"]
      [] outcome = "Validation" -> [status |-> 400, code |-> "VALIDATION_ERROR"]
      [] outcome = "BusinessLogic" -> [status |-> 400, code |-> "BUSINESS_LOGIC_ERROR"]
      [] OTHER -> [status |-> 500, code |-> "INTERNAL_ERROR"]

(* C34: a dispatch refused because the Campaign is not dispatchable (status *)
(* not draft or scheduled) reaches the HTTP caller as status 422 with error *)
(* code BUSINESS_LOGIC_ERROR.                                               *)
C34_NotDispatchableIs422 ==
    \A r \in Requests :
        reqs[r].outcome = "BusinessLogic" =>
            /\ HandleServiceError(reqs[r].outcome).status = 422
            /\ HandleServiceError(reqs[r].outcome).code = "BUSINESS_LOGIC_ERROR"

\* request slot r holds the answer to a CreateCampaign request
CreateAnswered(r) == reqs[r].template # NULL

\* the text is empty or has not as many "{" as "}"
EmptyOrUnbalanced(text) == text = <<>> \/ Count(text, "{") # Count(text, "}")

(* C35: a CreateCampaign request fails validation exactly when its template *)
(* is empty or its numbers of "{" and "}" differ (a placeholder for an      *)
(* unknown field does not fail it), and no Campaign whose template fails    *)
(* validation is ever stored.                                               *)
C35_TemplateValidation ==
    /\ \A r \in Requests :
          CreateAnswered(r) =>
              /\ (reqs[r].outcome = "Validation") <=> EmptyOrUnbalanced(reqs[r].template)
              /\ reqs[r].outcome = "OK" =>
                    /\ reqs[r].campaign = Len(campaigns)
                    /\ campaigns[reqs[r].campaign].base_template = reqs[r].template
              /\ reqs[r].outcome # "OK" => reqs[r].campaign = 0
    /\ \A id \in DOMAIN campaigns : ~EmptyOrUnbalanced(campaigns[id].base_template)

\* a Campaign whose template holds the unknown placeholder {x} was created
C35_Witness ==
    \E r \in Requests :
        /\ CreateAnswered(r)
        /\ reqs[r].outcome = "OK"
        /\ Contains(reqs[r].template, Placeholder("x"))
        /\ campaigns[Len(campaigns)].base_template = reqs[r].template

(* C36: NotFound is answered by SendCampaign and Preview only when the      *)
(* Campaign or the Recipient named is absent; a Store failure while loading *)
(* one that exists is answered as an internal error.                        *)
C36_NotFoundOnlyWhenAbsent ==
    \A r \in Requests :
        reqs[r].outcome = "NotFound" =>
            \/ reqs[r].campaign \notin DOMAIN campaigns
            \/ reqs[r].customer # 0 /\ reqs[r].customer \notin DOMAIN customers

C38_RetryCountAtMost3 ==
    \A m \in MessageIDs : messages[m].retry_count <= MaxRetries

\* this step ends a SendCampaign call of slot r with an error
SendFails(r) ==
    /\ reqs'[r] # reqs[r]
    /\ reqs'[r].pc = "idle"
    /\ reqs'[r].outcome \notin {NULL, "OK"}
    /\ reqs'[r].customer = 0 /\ reqs'[r].template = NULL

(* C39: a SendCampaign call that returns an error has had no lasting        *)
(* effect: no Message row created by the call exists, the Campaign's status *)
(* is what it was (a refused call changes nothing; a call that got past the *)
(* checks leaves the Campaign draft or scheduled), and no job of the call   *)
(* is on the queue.                                                         *)
C39_FailedSendHasNoEffect ==
    [][ \A r \in Requests :
          SendFails(r) =>
              /\ reqs[r].pc = "idle" => UNCHANGED <<campaigns, messages, jobs>>
              /\ reqs[r].pc # "idle" =>
                    /\ reqs[r].created = <<>>
                    /\ campaigns'[reqs[r].campaign].status \in {"draft", "scheduled"}
                    /\ \A j \in DOMAIN jobs' :
                          ~UnmarshalFails(jobs'[j].body) =>
                              \A k \in DOMAIN reqs[r].created :
                                  jobs'[j].body.message_id # reqs[r].created[k]
      ]_vars

(* C40: once shutdown has been requested (Stop has closed stopChan) the     *)
(* consumer takes no new job from its delivery channel: a step that starts  *)
(* on a job is taken only while stopChan is open.                           *)
C40_NoNewJobAfterStop ==
    [][ \A c \in Consumers :
          (cons[c].pc = "idle" /\ cons'[c].pc \notin {"idle", "exited"}) =>
              ~worker.stopChan
      ]_vars

====
